---- MODULE Spec2Model ----
(***************************************************************************)
(* The blog backend (users, categories, posts, tags, post_tags, comments)  *)
(* as a state machine over its six tables.  A handler is a sequence of     *)
(* database statements; every `await db...execute()` is one atomic         *)
(* statement, and a handler's position between two statements is its pc.   *)
(* A request slot r runs one handler at a time.  The sequential            *)
(* specifications use slot 1 alone (a handler runs to completion before    *)
(* the next one starts); the concurrent ones let the slots interleave at   *)
(* statement boundaries, as the event loop does.                           *)
(***************************************************************************)
EXTENDS Integers, Sequences, FiniteSets, TLC

\* ---------------------------------------------------------------- bounds
\* Largest id the posts / comments / post_tags serial sequences hand out.
MaxPostId == 3
MaxCommentId == 4
MaxPostTagId == 3
\* Largest comment id handed out while requests run concurrently, or while
\* handlers of every family run.
MaxConcCommentId == 2
\* Last reading of the clock (new Date()); the clock starts at 0.
MaxTime == 2
\* Largest post id handed out while createPost requests run concurrently.
MaxConcPostId == 4
\* Number of request slots (concurrent handlers in flight).
NumReqs == 2
\* Largest id the users serial sequence hands out.
MaxUserId == 3
\* Most view requests, and most like requests, that are served for one post.
MaxServed == 3

\* SQL NULL / a JS null or undefined that the code treats as null.
NULL == -1

Reqs == 1..NumReqs
Statuses == {"draft", "published", "archived"}
Slugs == {"s1", "s2", "s3"}
Titles == {"t1", "t2"}
\* An absent optional input field (undefined), for text-valued fields.
UNDEF == "undefined"
\* An absent optional input field (undefined), for id-valued fields.
UNDEFID == -2

VARIABLES
    users,          \* usersTable: id -> [email, username]
    categories,     \* categoriesTable: the set of category ids
    posts,          \* postsTable: id -> row
    tags,           \* tagsTable: the set of tag ids
    postTags,       \* postTagsTable: id -> [post_id, tag_id]
    comments,       \* commentsTable: id -> [post_id, parent_id, is_approved]
    nextUserId,     \* serial sequences of the four tables that grow
    nextPostId,
    nextPostTagId,
    nextCommentId,
    now,            \* the clock read by new Date()
    req,            \* per request slot: handler, position, input, locals, response
    pre,            \* per request slot: the tables as they were when the handler was called
    served          \* per post: the view requests and like requests that returned the post

tables == <<users, categories, posts, tags, postTags, comments>>
serials == <<nextUserId, nextPostId, nextPostTagId, nextCommentId>>
vars == <<users, categories, posts, tags, postTags, comments,
          nextUserId, nextPostId, nextPostTagId, nextCommentId, now, req, pre, served>>

\* Ids a caller may name: every id the sequence can hand out, and one it never does.
PostIdInputs == 1..(MaxPostId + 1)
\* Every id the posts sequence hands out in some specification.
PostIds == 1..(IF MaxPostId > MaxConcPostId THEN MaxPostId ELSE MaxConcPostId)
CommentIdInputs == 1..(MaxCommentId + 1)
UserIds == {1}
CategoryIds == {1}
TagIds == {1, 2}
UserIdInputs == {1, 2}
CategoryIdInputs == {1, 2}
TagIdInputs == {1, 2, 3}

\* ---------------------------------------------------------------- rows
\* A row carries the columns a handler reads, branches on or counts.  title
\* stands for the text columns updatePost copies from its input (content,
\* excerpt, media fields); created_at and updated_at, which no handler reads,
\* are left out.
PostRow(title, slug, status, published_at, author_id, category_id) ==
    [title |-> title, slug |-> slug, status |-> status,
     published_at |-> published_at, author_id |-> author_id,
     category_id |-> category_id, view_count |-> 0, like_count |-> 0]

UserRow(email, username) == [email |-> email, username |-> username]

CommentRow(post_id, parent_id, is_approved) ==
    [post_id |-> post_id, parent_id |-> parent_id, is_approved |-> is_approved]

PostTagRow(post_id, tag_id) == [post_id |-> post_id, tag_id |-> tag_id]

\* f with key k bound to v (an INSERT ... RETURNING of row v under id k).
Insert(f, k, v) == [x \in DOMAIN f \cup {k} |-> IF x = k THEN v ELSE f[x]]
\* f without the keys in ks (a DELETE of those rows).
Remove(f, ks) == [x \in DOMAIN f \ ks |-> f[x]]

\* ---------------------------------------------------------------- requests
NoArg ==
    [id |-> NULL, post_id |-> NULL, parent_id |-> NULL, tag_id |-> NULL,
     author_id |-> NULL, category_id |-> NULL,
     title |-> UNDEF, slug |-> UNDEF, status |-> UNDEF, approved_only |-> FALSE,
     email |-> UNDEF, username |-> UNDEF]

\* The local `post` of getPostById / getPostBySlug before its SELECT has run.
NoPost == [id |-> NULL, view_count |-> 0]

IdleReq ==
    [op |-> "none", pc |-> "idle", arg |-> NoArg, stack |-> <<>>,
     currentStatus |-> UNDEF, post |-> NoPost, res |-> "none", ret |-> NULL,
     results |-> {}]

Snapshot ==
    [users |-> users, categories |-> categories, posts |-> posts, tags |-> tags,
     postTags |-> postTags, comments |-> comments]

\* A handler may be called on a slot that runs none.
Free(r) == req[r].pc \in {"idle", "done"}

\* The call of handler op with input arg: its first statement is at pc first.
Call(r, op, first, arg) ==
    /\ Free(r)
    /\ req' = [req EXCEPT ![r] = [IdleReq EXCEPT !.op = op, !.pc = first, !.arg = arg]]
    /\ pre' = [pre EXCEPT ![r] = Snapshot]
    /\ UNCHANGED <<tables, serials, now, served>>

At(r, op, pc) == req[r].op = op /\ req[r].pc = pc

Goto(r, pc) == req' = [req EXCEPT ![r].pc = pc]

\* The handler returns (res = "ok", ret = the returned row's id) or throws (res = the error).
Return(r, res, ret) ==
    req' = [req EXCEPT ![r] = [@ EXCEPT !.pc = "done", !.res = res, !.ret = ret,
                                      !.stack = <<>>, !.currentStatus = UNDEF,
                                      !.post = NoPost]]

Throw(r, err) == Return(r, err, NULL)

\* ---------------------------------------------------------------- initial state
\* The store after createUser, createCategory, createTag (twice), two
\* createPost calls with status draft and addTagToPost(1, 1), all at clock reading 0.
Init ==
    /\ users = [u \in UserIds |-> UserRow("e1", "u1")]
    /\ categories = CategoryIds
    /\ tags = TagIds
    /\ posts = [p \in {1, 2} |->
                 PostRow("t1", IF p = 1 THEN "s1" ELSE "s2", "draft", NULL, 1, NULL)]
    /\ postTags = 1 :> PostTagRow(1, 1)
    /\ comments = <<>>
    /\ nextUserId = 2
    /\ nextPostId = 3
    /\ nextPostTagId = 2
    /\ nextCommentId = 1
    /\ now = 0
    /\ req = [r \in Reqs |-> IdleReq]
    /\ pre = [r \in Reqs |-> Snapshot]
    /\ served = [views |-> [p \in PostIds |-> 0], likes |-> [p \in PostIds |-> 0]]

\* The clock advances.
Tick ==
    /\ now < MaxTime
    /\ now' = now + 1
    /\ UNCHANGED <<tables, serials, req, pre, served>>

\* Handlers in flight that will still draw from a serial sequence.
Pending(op) == Cardinality({r \in Reqs : req[r].op = op /\ ~Free(r)})

\* ---------------------------------------------------------------- createUser, updateUser
\* The store's own constraints on a users row: email UNIQUE, username UNIQUE.
UserRowAllowedAnyEmail(id, row) ==
    \A u \in DOMAIN users \ {id} : users[u].username # row.username

UserRowAllowed(id, row) ==
    \A u \in DOMAIN users \ {id} :
        users[u].email # row.email /\ users[u].username # row.username

createUser(r, emails, usernames) ==
    /\ nextUserId + Pending("createUser") <= MaxUserId
    /\ \E e \in emails, u \in usernames :
         Call(r, "createUser", "insert", [NoArg EXCEPT !.email = e, !.username = u])

\* INSERT INTO users ... RETURNING: createUser has no check of its own.
createUser_insert(r) ==
    /\ At(r, "createUser", "insert")
    /\ LET row == UserRow(req[r].arg.email, req[r].arg.username)
       IN  /\ nextUserId' = nextUserId + 1
           /\ IF UserRowAllowed(nextUserId, row)
                THEN /\ users' = Insert(users, nextUserId, row)
                     /\ Return(r, "ok", nextUserId)
                ELSE /\ users' = users
                     /\ Throw(r, "ConstraintViolation")
    /\ UNCHANGED <<categories, posts, tags, postTags, comments,
                   nextPostId, nextPostTagId, nextCommentId, now, pre, served>>

updateUser(r, ids, usernames) ==
    \E i \in ids, u \in usernames :
        Call(r, "updateUser", "select", [NoArg EXCEPT !.id = i, !.username = u])

updateUser_select(r) ==
    /\ At(r, "updateUser", "select")
    /\ IF req[r].arg.id \notin DOMAIN users
         THEN Throw(r, "UserNotFound")
         ELSE Goto(r, "update")
    /\ UNCHANGED <<tables, serials, now, pre, served>>

\* UPDATE users SET ... WHERE id = input.id RETURNING: username is set when the
\* input has one (no handler deletes a user, so the row is still there).
updateUser_update(r) ==
    /\ At(r, "updateUser", "update")
    /\ LET a == req[r].arg
           row == [users[a.id] EXCEPT !.username = IF a.username # UNDEF THEN a.username ELSE @]
       IN  IF UserRowAllowed(a.id, row)
             THEN /\ users' = [users EXCEPT ![a.id] = row]
                  /\ Return(r, "ok", a.id)
             ELSE /\ users' = users
                  /\ Throw(r, "ConstraintViolation")
    /\ UNCHANGED <<categories, posts, tags, postTags, comments, serials, now, pre, served>>

\* ---------------------------------------------------------------- createPost
\* published_at of a new post: stamped when it is created published.
CreatePublishedAtNever(status) == NULL

CreatePublishedAt(status) == IF status = "published" THEN now ELSE NULL

\* The store's own constraints on a posts row: slug UNIQUE, author_id and
\* category_id REFERENCES users / categories.
PostRowAllowedAnySlug(id, row) ==
    /\ row.author_id \in DOMAIN users
    /\ row.category_id = NULL \/ row.category_id \in categories

PostRowAllowed(id, row) ==
    /\ \A q \in DOMAIN posts \ {id} : posts[q].slug # row.slug
    /\ row.author_id \in DOMAIN users
    /\ row.category_id = NULL \/ row.category_id \in categories

createPost(r, authors, cats, slugs, statuses, maxId) ==
    /\ nextPostId + Pending("createPost") <= maxId
    /\ \E a \in authors, c \in cats, s \in slugs, st \in statuses :
         Call(r, "createPost", "author",
              [NoArg EXCEPT !.author_id = a, !.category_id = c, !.slug = s,
                            !.status = st, !.title = "t1"])

\* createPost without its author check.
createPost_authorUnchecked(r) ==
    /\ At(r, "createPost", "author")
    /\ Goto(r, IF req[r].arg.category_id # NULL THEN "category" ELSE "slug")
    /\ UNCHANGED <<tables, serials, now, pre, served>>

createPost_author(r) ==
    /\ At(r, "createPost", "author")
    /\ IF req[r].arg.author_id \notin DOMAIN users
         THEN Throw(r, "AuthorNotFound")
         ELSE Goto(r, IF req[r].arg.category_id # NULL THEN "category" ELSE "slug")
    /\ UNCHANGED <<tables, serials, now, pre, served>>

createPost_category(r) ==
    /\ At(r, "createPost", "category")
    /\ IF req[r].arg.category_id \notin categories
         THEN Throw(r, "CategoryNotFound")
         ELSE Goto(r, "slug")
    /\ UNCHANGED <<tables, serials, now, pre, served>>

createPost_slug(r) ==
    /\ At(r, "createPost", "slug")
    /\ IF \E q \in DOMAIN posts : posts[q].slug = req[r].arg.slug
         THEN Throw(r, "SlugExists")
         ELSE Goto(r, "insert")
    /\ UNCHANGED <<tables, serials, now, pre, served>>

createPost_insert(r) ==
    /\ At(r, "createPost", "insert")
    /\ LET a == req[r].arg
           row == PostRow(a.title, a.slug, a.status, CreatePublishedAt(a.status),
                          a.author_id, a.category_id)
       IN  /\ nextPostId' = nextPostId + 1
           /\ IF PostRowAllowed(nextPostId, row)
                THEN /\ posts' = Insert(posts, nextPostId, row)
                     /\ Return(r, "ok", nextPostId)
                ELSE /\ posts' = posts
                     /\ Throw(r, "ConstraintViolation")
    /\ UNCHANGED <<users, categories, tags, postTags, comments,
                   nextUserId, nextPostTagId, nextCommentId, now, pre, served>>

\* ---------------------------------------------------------------- updatePost
\* An updateData that never carries published_at.
UpdateStampsNever(status, currentStatus) == FALSE

\* published_at in updateData: stamped when the status goes to published from
\* a status that is not published.
UpdateStamps(status, currentStatus) ==
    status = "published" /\ currentStatus # "published"

\* A .set() that writes the title whether or not the input has one.
UpdatedTitleAlways(row, a, currentStatus) ==
    [row EXCEPT
       !.title = a.title,
       !.slug = IF a.slug # UNDEF THEN a.slug ELSE @,
       !.category_id = IF a.category_id # UNDEFID THEN a.category_id ELSE @,
       !.status = IF a.status # UNDEF THEN a.status ELSE @,
       !.published_at = IF a.status # UNDEF /\ UpdateStamps(a.status, currentStatus)
                          THEN now ELSE @]

\* The row after .set(updateData): a field of the input that is not undefined
\* replaces the row's.
Updated(row, a, currentStatus) ==
    [row EXCEPT
       !.title = IF a.title # UNDEF THEN a.title ELSE @,
       !.slug = IF a.slug # UNDEF THEN a.slug ELSE @,
       !.category_id = IF a.category_id # UNDEFID THEN a.category_id ELSE @,
       !.status = IF a.status # UNDEF THEN a.status ELSE @,
       !.published_at = IF a.status # UNDEF /\ UpdateStamps(a.status, currentStatus)
                          THEN now ELSE @]

updatePost(r, ids, titles, slugs, statuses, cats) ==
    \E i \in ids, t \in titles, s \in slugs, st \in statuses, c \in cats :
        Call(r, "updatePost", "select",
             [NoArg EXCEPT !.id = i, !.title = t, !.slug = s, !.status = st,
                           !.category_id = c])

updatePost_select(r) ==
    /\ At(r, "updatePost", "select")
    /\ LET a == req[r].arg
       IN  IF a.id \notin DOMAIN posts
             THEN Throw(r, "PostNotFound")
             ELSE req' = [req EXCEPT
                     ![r].currentStatus = posts[a.id].status,
                     ![r].pc = IF a.category_id \notin {UNDEFID, NULL}
                                 THEN "category" ELSE "update"]
    /\ UNCHANGED <<tables, serials, now, pre, served>>

updatePost_category(r) ==
    /\ At(r, "updatePost", "category")
    /\ IF req[r].arg.category_id \notin categories
         THEN Throw(r, "CategoryNotFound")
         ELSE Goto(r, "update")
    /\ UNCHANGED <<tables, serials, now, pre, served>>

\* UPDATE ... WHERE id = input.id RETURNING: result[0] is undefined (ret = NULL)
\* when no row has the id any more.
updatePost_update(r) ==
    /\ At(r, "updatePost", "update")
    /\ LET a == req[r].arg
       IN  IF a.id \notin DOMAIN posts
             THEN /\ posts' = posts
                  /\ Return(r, "ok", NULL)
             ELSE LET row == Updated(posts[a.id], a, req[r].currentStatus)
                  IN  IF PostRowAllowed(a.id, row)
                        THEN /\ posts' = [posts EXCEPT ![a.id] = row]
                             /\ Return(r, "ok", a.id)
                        ELSE /\ posts' = posts
                             /\ Throw(r, "ConstraintViolation")
    /\ UNCHANGED <<users, categories, tags, postTags, comments, serials, now, pre, served>>

\* ---------------------------------------------------------------- createComment
\* `if (input.parent_id)`, `input.parent_id || null`: null, undefined and 0 are falsy.
Truthy(id) == id # NULL /\ id # 0

\* is_approved of a new comment.
NewCommentApprovedTrue == TRUE

NewCommentApproved == FALSE

\* The store's own constraint on a comments row: post_id REFERENCES posts
\* (parent_id has no foreign key).
CommentRowAllowed(row) == row.post_id \in DOMAIN posts

createComment(r, postIds, parentIds, maxId) ==
    /\ nextCommentId + Pending("createComment") <= maxId
    /\ \E p \in postIds, c \in parentIds :
         Call(r, "createComment", "post", [NoArg EXCEPT !.post_id = p, !.parent_id = c])

createComment_post(r) ==
    /\ At(r, "createComment", "post")
    /\ IF req[r].arg.post_id \notin DOMAIN posts
         THEN Throw(r, "PostNotFound")
         ELSE Goto(r, IF Truthy(req[r].arg.parent_id) THEN "parent" ELSE "insert")
    /\ UNCHANGED <<tables, serials, now, pre, served>>

createComment_parent(r) ==
    /\ At(r, "createComment", "parent")
    /\ LET a == req[r].arg
       IN  IF a.parent_id \notin DOMAIN comments
             THEN Throw(r, "ParentNotFound")
             ELSE IF comments[a.parent_id].post_id # a.post_id
                    THEN Throw(r, "ParentWrongPost")
                    ELSE Goto(r, "insert")
    /\ UNCHANGED <<tables, serials, now, pre, served>>

createComment_insert(r) ==
    /\ At(r, "createComment", "insert")
    /\ LET a == req[r].arg
           row == CommentRow(a.post_id,
                             IF Truthy(a.parent_id) THEN a.parent_id ELSE NULL,
                             NewCommentApproved)
       IN  /\ nextCommentId' = nextCommentId + 1
           /\ IF CommentRowAllowed(row)
                THEN /\ comments' = Insert(comments, nextCommentId, row)
                     /\ Return(r, "ok", nextCommentId)
                ELSE /\ comments' = comments
                     /\ Throw(r, "ConstraintViolation")
    /\ UNCHANGED <<users, categories, posts, tags, postTags,
                   nextUserId, nextPostId, nextPostTagId, now, pre, served>>

\* ---------------------------------------------------------------- approveComment
\* The row after SET is_approved = true.
ApprovedToggled(row) == [row EXCEPT !.is_approved = ~@]

Approved(row) == [row EXCEPT !.is_approved = TRUE]

approveComment(r, ids) ==
    \E c \in ids : Call(r, "approveComment", "update", [NoArg EXCEPT !.id = c])

\* An UPDATE that approves every comment, whatever the id.
approveComment_updateEvery(r) ==
    /\ At(r, "approveComment", "update")
    /\ comments' = [c \in DOMAIN comments |-> [comments[c] EXCEPT !.is_approved = TRUE]]
    /\ IF req[r].arg.id \in DOMAIN comments
         THEN Return(r, "ok", req[r].arg.id)
         ELSE Throw(r, "CommentNotFound")
    /\ UNCHANGED <<users, categories, posts, tags, postTags, serials, now, pre, served>>

\* UPDATE ... SET is_approved = true WHERE id = commentId RETURNING
approveComment_update(r) ==
    /\ At(r, "approveComment", "update")
    /\ LET c == req[r].arg.id
       IN  IF c \in DOMAIN comments
             THEN /\ comments' = [comments EXCEPT ![c] = Approved(@)]
                  /\ Return(r, "ok", c)
             ELSE /\ comments' = comments
                  /\ Throw(r, "CommentNotFound")
    /\ UNCHANGED <<users, categories, posts, tags, postTags, serials, now, pre, served>>

\* ---------------------------------------------------------------- getComments
\* The rows SELECT ... WHERE post_id = input.post_id [AND is_approved = true] matches.
MatchingAnyPost(post_id, approved_only) ==
    {c \in DOMAIN comments : approved_only => comments[c].is_approved}

Matching(post_id, approved_only) ==
    {c \in DOMAIN comments :
        /\ comments[c].post_id = post_id
        /\ approved_only => comments[c].is_approved}

\* The inputs have offset 0 and a limit (default 20) above the number of
\* comments, so the query returns every matching row: results is their ids.
getComments(r, postIds, approvedOnly) ==
    \E p \in postIds, a \in approvedOnly :
        Call(r, "getComments", "select", [NoArg EXCEPT !.post_id = p, !.approved_only = a])

getComments_select(r) ==
    /\ At(r, "getComments", "select")
    /\ req' = [req EXCEPT
          ![r].results = Matching(req[r].arg.post_id, req[r].arg.approved_only),
          ![r].pc = "done", ![r].res = "ok"]
    /\ UNCHANGED <<tables, serials, now, pre, served>>

\* ---------------------------------------------------------------- deleteComment
\* SELECT ... WHERE parent_id = parentId: the direct replies.
NoReplies(parentId) == {}

Replies(parentId) == {c \in DOMAIN comments : comments[c].parent_id = parentId}

\* The rows DELETE ... WHERE parent_id = parentId removes.
RowsOfAnyParent(parentId) == {c \in DOMAIN comments : comments[c].parent_id # NULL}

RowsWithParent(parentId) == {c \in DOMAIN comments : comments[c].parent_id = parentId}

\* The response of deleteComment once its last DELETE has run.
DeleteResultChecked(commentId) ==
    IF commentId \in DOMAIN comments THEN "ok" ELSE "CommentNotFound"

DeleteResult(commentId) == "ok"

\* The for loop of a call in progress has visited every reply it found.
LoopDoneAnyTime(frame) == TRUE

LoopNeverDone(frame) == FALSE

LoopDone(frame) == frame.todo = {}

\* A call deleteReplies(parentId) in progress: the replies its SELECT found that
\* the for loop has not yet visited.
Frame(parentId, todo) == [parent |-> parentId, todo |-> todo]

\* The position after a statement of deleteReplies: in deleteReplies while a
\* call is in progress, at deleteComment's own DELETE once the outermost returned.
AfterReplies(stack) == IF stack = <<>> THEN "self" ELSE "replies"

\* deleteComment calls deleteReplies(commentId) first.
deleteComment(r, ids) ==
    \E c \in ids : Call(r, "deleteComment", "replies", [NoArg EXCEPT !.id = c])

\* The SELECT of a call deleteReplies(t): of the call deleteComment made (no
\* call is in progress yet), or of a call the for loop of the innermost call in
\* progress makes for one of its replies.  Rows come back in no stated order,
\* so the loop may visit the replies in any order.  A call that finds no reply
\* returns at once.
deleteReplies_select(r) ==
    /\ At(r, "deleteComment", "replies")
    /\ LET q == req[r]
           n == Len(q.stack)
       IN  \E t \in (IF n = 0 THEN {q.arg.id} ELSE q.stack[n].todo) :
             LET visited == IF n = 0 THEN q.stack
                            ELSE [q.stack EXCEPT ![n].todo = @ \ {t}]
                 replies == Replies(t)
                 stack == IF replies = {} THEN visited
                          ELSE Append(visited, Frame(t, replies))
             IN  req' = [req EXCEPT ![r].stack = stack, ![r].pc = AfterReplies(stack)]
    /\ UNCHANGED <<tables, serials, now, pre, served>>

\* The DELETE of the innermost call in progress, once its loop has visited
\* every reply; the call then returns.
deleteReplies_delete(r) ==
    /\ At(r, "deleteComment", "replies")
    /\ LET q == req[r]
           n == Len(q.stack)
       IN  /\ n > 0 /\ LoopDone(q.stack[n])
           /\ comments' = Remove(comments, RowsWithParent(q.stack[n].parent))
           /\ req' = [req EXCEPT ![r].stack = SubSeq(q.stack, 1, n - 1),
                                 ![r].pc = AfterReplies(SubSeq(q.stack, 1, n - 1))]
    /\ UNCHANGED <<users, categories, posts, tags, postTags, serials, now, pre, served>>

\* DELETE ... WHERE id = commentId, then { success: true }.
deleteComment_self(r) ==
    /\ At(r, "deleteComment", "self")
    /\ LET c == req[r].arg.id
       IN  /\ Return(r, DeleteResult(c), NULL)
           /\ comments' = Remove(comments, {c})
    /\ UNCHANGED <<users, categories, posts, tags, postTags, serials, now, pre, served>>

\* ---------------------------------------------------------------- deletePost
deletePost(r, ids) ==
    \E p \in ids : Call(r, "deletePost", "select", [NoArg EXCEPT !.id = p])

deletePost_select(r) ==
    /\ At(r, "deletePost", "select")
    /\ IF req[r].arg.id \notin DOMAIN posts
         THEN Throw(r, "PostNotFound")
         ELSE Goto(r, "comments")
    /\ UNCHANGED <<tables, serials, now, pre, served>>

\* The rows DELETE FROM comments WHERE post_id = id removes.
CommentsOfAnyPost(id) == DOMAIN comments

CommentsOfPost(id) == {c \in DOMAIN comments : comments[c].post_id = id}

\* The rows DELETE FROM posts WHERE id = id removes, when the store allows it.
PostRowsNone(id) == {}

PostRowsWithId(id) == {p \in DOMAIN posts : p = id}

deletePost_comments(r) ==
    /\ At(r, "deletePost", "comments")
    /\ comments' = Remove(comments, CommentsOfPost(req[r].arg.id))
    /\ Goto(r, "postTags")
    /\ UNCHANGED <<users, categories, posts, tags, postTags, serials, now, pre, served>>

deletePost_postTags(r) ==
    /\ At(r, "deletePost", "postTags")
    /\ postTags' = Remove(postTags,
                     {t \in DOMAIN postTags : postTags[t].post_id = req[r].arg.id})
    /\ Goto(r, "post")
    /\ UNCHANGED <<users, categories, posts, tags, comments, serials, now, pre, served>>

\* DELETE FROM posts WHERE id: refused by the store while a comments or
\* post_tags row still references the post.
deletePost_post(r) ==
    /\ At(r, "deletePost", "post")
    /\ LET p == req[r].arg.id
       IN  IF \/ \E c \in DOMAIN comments : comments[c].post_id = p
              \/ \E t \in DOMAIN postTags : postTags[t].post_id = p
             THEN /\ posts' = posts
                  /\ Throw(r, "ConstraintViolation")
             ELSE /\ posts' = Remove(posts, PostRowsWithId(p))
                  /\ Return(r, "ok", NULL)
    /\ UNCHANGED <<users, categories, tags, postTags, comments, serials, now, pre, served>>

\* ---------------------------------------------------------------- addTagToPost
AssociationNeverExists(post_id, tag_id) == FALSE

AssociationExists(post_id, tag_id) ==
    \E t \in DOMAIN postTags :
        postTags[t].post_id = post_id /\ postTags[t].tag_id = tag_id

\* The store's own constraints on a post_tags row: post_id REFERENCES posts,
\* tag_id REFERENCES tags (the pair has no UNIQUE constraint).
PostTagRowAllowed(row) == row.post_id \in DOMAIN posts /\ row.tag_id \in tags

addTagToPost(r, postIds, tagIds) ==
    /\ nextPostTagId + Pending("addTagToPost") <= MaxPostTagId
    /\ \E p \in postIds, t \in tagIds :
         Call(r, "addTagToPost", "post", [NoArg EXCEPT !.post_id = p, !.tag_id = t])

addTagToPost_post(r) ==
    /\ At(r, "addTagToPost", "post")
    /\ IF req[r].arg.post_id \notin DOMAIN posts
         THEN Throw(r, "PostNotFound")
         ELSE Goto(r, "tag")
    /\ UNCHANGED <<tables, serials, now, pre, served>>

\* addTagToPost without its tag check.
addTagToPost_tagUnchecked(r) ==
    /\ At(r, "addTagToPost", "tag")
    /\ Goto(r, "association")
    /\ UNCHANGED <<tables, serials, now, pre, served>>

addTagToPost_tag(r) ==
    /\ At(r, "addTagToPost", "tag")
    /\ IF req[r].arg.tag_id \notin tags
         THEN Throw(r, "TagNotFound")
         ELSE Goto(r, "association")
    /\ UNCHANGED <<tables, serials, now, pre, served>>

addTagToPost_association(r) ==
    /\ At(r, "addTagToPost", "association")
    /\ IF AssociationExists(req[r].arg.post_id, req[r].arg.tag_id)
         THEN Throw(r, "AlreadyAssociated")
         ELSE Goto(r, "insert")
    /\ UNCHANGED <<tables, serials, now, pre, served>>

addTagToPost_insert(r) ==
    /\ At(r, "addTagToPost", "insert")
    /\ LET row == PostTagRow(req[r].arg.post_id, req[r].arg.tag_id)
       IN  /\ nextPostTagId' = nextPostTagId + 1
           /\ IF PostTagRowAllowed(row)
                THEN /\ postTags' = Insert(postTags, nextPostTagId, row)
                     /\ Return(r, "ok", nextPostTagId)
                ELSE /\ postTags' = postTags
                     /\ Throw(r, "ConstraintViolation")
    /\ UNCHANGED <<users, categories, posts, tags, comments,
                   nextUserId, nextPostId, nextCommentId, now, pre, served>>

\* ---------------------------------------------------------------- removeTagFromPost
removeTagFromPost(r, postIds, tagIds) ==
    \E p \in postIds, t \in tagIds :
        Call(r, "removeTagFromPost", "delete", [NoArg EXCEPT !.post_id = p, !.tag_id = t])

\* The rows DELETE ... WHERE post_id = input.post_id AND tag_id = input.tag_id removes.
RowsOfPost(post_id, tag_id) == {t \in DOMAIN postTags : postTags[t].post_id = post_id}

RowsOfPair(post_id, tag_id) ==
    {t \in DOMAIN postTags :
        postTags[t].post_id = post_id /\ postTags[t].tag_id = tag_id}

removeTagFromPost_delete(r) ==
    /\ At(r, "removeTagFromPost", "delete")
    /\ postTags' = Remove(postTags, RowsOfPair(req[r].arg.post_id, req[r].arg.tag_id))
    /\ Return(r, "ok", NULL)
    /\ UNCHANGED <<users, categories, posts, tags, comments, serials, now, pre, served>>

\* ---------------------------------------------------------------- getPostById, getPostBySlug
\* A view request may start while fewer than MaxServed were served or are in flight.
ViewsBelowBound ==
    \A p \in DOMAIN served.views :
        served.views[p] + Pending("getPostById") + Pending("getPostBySlug") < MaxServed

\* The posts table after UPDATE posts SET view_count = v WHERE id = id.
SetViewCount(id, v) ==
    [p \in DOMAIN posts |-> IF p = id THEN [posts[p] EXCEPT !.view_count = v] ELSE posts[p]]

\* The posts table after UPDATE posts SET view_count = view_count + 1 WHERE id = id.
IncrementViewCount(id) ==
    [p \in DOMAIN posts |-> IF p = id THEN [posts[p] EXCEPT !.view_count = @ + 1] ELSE posts[p]]

\* One more request that returned post id.
Served(kind, id) ==
    IF kind = "views"
      THEN [served EXCEPT !.views[id] = @ + 1]
      ELSE [served EXCEPT !.likes[id] = @ + 1]

getPostById(r, ids) ==
    /\ ViewsBelowBound
    /\ \E i \in ids : Call(r, "getPostById", "select", [NoArg EXCEPT !.id = i])

\* SELECT ... WHERE id = id LIMIT 1; null is returned when there is no such post.
getPostById_select(r) ==
    /\ At(r, "getPostById", "select")
    /\ LET i == req[r].arg.id
       IN  IF i \notin DOMAIN posts
             THEN Return(r, "ok", NULL)
             ELSE req' = [req EXCEPT
                     ![r].post = [id |-> i, view_count |-> posts[i].view_count],
                     ![r].pc = "update"]
    /\ UNCHANGED <<tables, serials, now, pre, served>>

\* UPDATE ... SET view_count = post.view_count + 1: the value read by the SELECT, plus one.
getPostById_update(r) ==
    /\ At(r, "getPostById", "update")
    /\ LET post == req[r].post
       IN  /\ posts' = SetViewCount(post.id, post.view_count + 1)
           /\ served' = Served("views", post.id)
           /\ Return(r, "ok", post.id)
    /\ UNCHANGED <<users, categories, tags, postTags, comments, serials, now, pre>>

getPostBySlug(r, slugs) ==
    /\ ViewsBelowBound
    /\ \E s \in slugs : Call(r, "getPostBySlug", "select", [NoArg EXCEPT !.slug = s])

\* SELECT ... WHERE slug = slug LIMIT 1 (slug is unique); null is returned when
\* there is no such post.
getPostBySlug_select(r) ==
    /\ At(r, "getPostBySlug", "select")
    /\ LET found == {p \in DOMAIN posts : posts[p].slug = req[r].arg.slug}
       IN  IF found = {}
             THEN Return(r, "ok", NULL)
             ELSE \E i \in found :
                    req' = [req EXCEPT
                       ![r].post = [id |-> i, view_count |-> posts[i].view_count],
                       ![r].pc = "update"]
    /\ UNCHANGED <<tables, serials, now, pre, served>>

\* UPDATE ... SET view_count = view_count + 1 WHERE id = post.id: the stored value, plus one.
getPostBySlug_update(r) ==
    /\ At(r, "getPostBySlug", "update")
    /\ LET post == req[r].post
       IN  /\ posts' = IncrementViewCount(post.id)
           /\ served' = Served("views", post.id)
           /\ Return(r, "ok", post.id)
    /\ UNCHANGED <<users, categories, tags, postTags, comments, serials, now, pre>>

\* ---------------------------------------------------------------- likePost
\* A like request may start while fewer than MaxServed were served or are in flight.
LikesBelowBound ==
    \A p \in DOMAIN served.likes : served.likes[p] + Pending("likePost") < MaxServed

\* like_count in the SET clause of likePost's UPDATE, evaluated by the store on the row.
LikeCountKept(row) == row.like_count

LikeCountSet(row) == row.like_count + 1

likePost(r, ids) ==
    /\ LikesBelowBound
    /\ \E i \in ids : Call(r, "likePost", "select", [NoArg EXCEPT !.id = i])

likePost_select(r) ==
    /\ At(r, "likePost", "select")
    /\ IF req[r].arg.id \notin DOMAIN posts
         THEN Throw(r, "PostNotFound")
         ELSE Goto(r, "update")
    /\ UNCHANGED <<tables, serials, now, pre, served>>

\* UPDATE ... SET like_count = like_count + 1 WHERE id = postId RETURNING:
\* result[0] is undefined (ret = NULL) when no row has the id any more.
likePost_update(r) ==
    /\ At(r, "likePost", "update")
    /\ LET i == req[r].arg.id
       IN  IF i \notin DOMAIN posts
             THEN /\ posts' = posts
                  /\ served' = served
                  /\ Return(r, "ok", NULL)
             ELSE /\ posts' = [posts EXCEPT ![i].like_count = LikeCountSet(posts[i])]
                  /\ served' = Served("likes", i)
                  /\ Return(r, "ok", i)
    /\ UNCHANGED <<users, categories, tags, postTags, comments, serials, now, pre>>

\* ---------------------------------------------------------------- specifications
UserOps(r) == createUser_insert(r) \/ updateUser_select(r) \/ updateUser_update(r)

ViewOps(r) ==
    \/ getPostById_select(r) \/ getPostById_update(r)
    \/ getPostBySlug_select(r) \/ getPostBySlug_update(r)

LikeOps(r) == likePost_select(r) \/ likePost_update(r)

PostOps(r) ==
    \/ createPost_author(r) \/ createPost_category(r) \/ createPost_slug(r)
    \/ createPost_insert(r)
    \/ updatePost_select(r) \/ updatePost_category(r) \/ updatePost_update(r)

ThreadOps(r) ==
    \/ createComment_post(r) \/ createComment_parent(r) \/ createComment_insert(r)
    \/ deleteReplies_select(r) \/ deleteReplies_delete(r) \/ deleteComment_self(r)

DeletePostOps(r) ==
    \/ deletePost_select(r) \/ deletePost_comments(r) \/ deletePost_postTags(r)
    \/ deletePost_post(r)

TagOps(r) ==
    \/ addTagToPost_post(r) \/ addTagToPost_tag(r) \/ addTagToPost_association(r)
    \/ addTagToPost_insert(r)
    \/ removeTagFromPost_delete(r)

\* Every handler on every request slot, with every input: the specifications
\* below restrict this relation to a family of handlers and to the inputs that
\* family's cases need.
Next ==
    \/ Tick
    \/ \E r \in Reqs :
        \/ createPost(r, UserIdInputs, {NULL} \cup CategoryIdInputs, Slugs, Statuses, MaxPostId)
        \/ updatePost(r, PostIdInputs, {UNDEF} \cup Titles, {UNDEF} \cup Slugs,
                      {UNDEF} \cup Statuses, {UNDEFID, NULL} \cup CategoryIdInputs)
        \/ deletePost(r, PostIdInputs)
        \/ createComment(r, PostIdInputs, {NULL, 0} \cup CommentIdInputs, MaxCommentId)
        \/ approveComment(r, CommentIdInputs)
        \/ deleteComment(r, CommentIdInputs)
        \/ addTagToPost(r, PostIdInputs, TagIdInputs)
        \/ removeTagFromPost(r, PostIdInputs, TagIdInputs)
        \/ getPostById(r, PostIdInputs)
        \/ getPostBySlug(r, Slugs)
        \/ likePost(r, PostIdInputs)
        \/ getComments(r, PostIdInputs, BOOLEAN)
        \/ getComments_select(r)
        \/ createUser(r, {"e1", "e2"}, {"u1", "u2"})
        \/ updateUser(r, 1..(MaxUserId + 1), {UNDEF, "u1", "u2", "u3"})
        \/ UserOps(r)
        \/ PostOps(r) \/ ThreadOps(r) \/ approveComment_update(r)
        \/ DeletePostOps(r) \/ TagOps(r) \/ ViewOps(r) \/ LikeOps(r)

Spec == Init /\ [][Next]_vars

\* The post lifecycle, one request at a time: posts are created and updated
\* while the clock advances.
NextPosts ==
    \/ Tick
    \/ createPost(1, UserIdInputs, {NULL, 1, 2}, {"s1", "s3"}, Statuses, MaxPostId)
    \/ updatePost(1, PostIdInputs \ {2}, {UNDEF}, {UNDEF}, {UNDEF} \cup Statuses, {UNDEFID, 2})
    \/ PostOps(1)

SpecPosts == Init /\ [][NextPosts]_vars

\* Comment threads, one request at a time.
NextComments ==
    \/ createComment(1, 1..3, {NULL, 0} \cup CommentIdInputs, MaxCommentId)
    \/ deleteComment(1, CommentIdInputs)
    \/ deletePost(1, 1..3)
    \/ ThreadOps(1) \/ DeletePostOps(1)

SpecComments == Init /\ [][NextComments]_vars

\* A deleteComment that was called runs on: each statement it awaits
\* completes, and the handler then continues with its next statement.
SpecCommentsFair ==
    /\ SpecComments
    /\ WF_vars(deleteReplies_select(1) \/ deleteReplies_delete(1) \/ deleteComment_self(1))

\* Post-tag associations, one request at a time.
NextTags ==
    \/ addTagToPost(1, 1..3, TagIdInputs)
    \/ removeTagFromPost(1, 1..3, TagIdInputs)
    \/ deletePost(1, 1..3)
    \/ TagOps(1) \/ DeletePostOps(1)

SpecTags == Init /\ [][NextTags]_vars

\* Comment moderation, one request at a time: comments are created, approved
\* and deleted while posts are updated and deleted.
NextModeration ==
    \/ createComment(1, {1}, {NULL, 1}, MaxCommentId)
    \/ approveComment(1, CommentIdInputs)
    \/ deleteComment(1, CommentIdInputs)
    \/ deletePost(1, {1})
    \/ updatePost(1, {1}, {"t2"}, {UNDEF}, {UNDEF}, {UNDEFID})
    \/ ThreadOps(1) \/ approveComment_update(1) \/ DeletePostOps(1)
    \/ updatePost_select(1) \/ updatePost_update(1)

SpecModeration == Init /\ [][NextModeration]_vars

\* Comment threads of post 1 under concurrent requests: the handlers of the
\* request slots interleave at statement boundaries.
NextCommentsConc ==
    \E r \in Reqs :
        \/ createComment(r, {1}, {NULL, 1}, MaxConcCommentId)
        \/ approveComment(r, {1})
        \/ deleteComment(r, {1})
        \/ deletePost(r, {1})
        \/ ThreadOps(r) \/ approveComment_update(r) \/ DeletePostOps(r)

SpecCommentsConc == Init /\ [][NextCommentsConc]_vars

\* Post-tag associations of post 1 under concurrent requests.
NextTagsConc ==
    \E r \in Reqs :
        \/ addTagToPost(r, {1}, {1, 2})
        \/ removeTagFromPost(r, {1}, {1, 2})
        \/ TagOps(r)

SpecTagsConc == Init /\ [][NextTagsConc]_vars

\* Deleting posts that have comment threads and tags, one request at a time.
NextDeletePost ==
    \/ createComment(1, {1, 2}, {NULL, 1}, MaxCommentId)
    \/ addTagToPost(1, {1, 2}, {1})
    \/ deletePost(1, 1..3)
    \/ createComment_post(1) \/ createComment_parent(1) \/ createComment_insert(1)
    \/ addTagToPost_post(1) \/ addTagToPost_tag(1) \/ addTagToPost_association(1)
    \/ addTagToPost_insert(1)
    \/ DeletePostOps(1)

SpecDeletePost == Init /\ [][NextDeletePost]_vars

\* Views of post 1 under concurrent requests: by id and by slug, also of a
\* post that does not exist.
NextViews ==
    \E r \in Reqs :
        \/ getPostById(r, {1, MaxPostId + 1})
        \/ getPostBySlug(r, {"s1", "s3"})
        \/ ViewOps(r)

SpecViews == Init /\ [][NextViews]_vars

\* Likes of posts 1 and 2 under concurrent requests, also of a post that does not exist.
NextLikes ==
    \E r \in Reqs :
        \/ likePost(r, {1, 2, MaxPostId + 1})
        \/ LikeOps(r)

SpecLikes == Init /\ [][NextLikes]_vars

\* The handlers that validate their input, one request at a time, each with
\* inputs that pass and inputs that fail each of its checks.
NextValidators ==
    \/ createPost(1, UserIdInputs, {NULL, 2}, {"s1", "s3"}, {"draft"}, MaxPostId)
    \/ updatePost(1, {1, MaxPostId + 1}, {UNDEF}, {UNDEF, "s2"}, {UNDEF}, {UNDEFID, 2})
    \/ createComment(1, {1, 2, MaxPostId + 1}, {NULL, 1, MaxCommentId + 1}, MaxConcCommentId)
    \/ approveComment(1, {1, MaxCommentId + 1})
    \/ addTagToPost(1, {1, MaxPostId + 1}, {2, 3})
    \/ deletePost(1, {2, MaxPostId + 1})
    \/ likePost(1, {1, MaxPostId + 1})
    \/ PostOps(1)
    \/ createComment_post(1) \/ createComment_parent(1) \/ createComment_insert(1)
    \/ approveComment_update(1)
    \/ addTagToPost_post(1) \/ addTagToPost_tag(1) \/ addTagToPost_association(1)
    \/ addTagToPost_insert(1)
    \/ DeletePostOps(1) \/ LikeOps(1)

SpecValidators == Init /\ [][NextValidators]_vars

\* Deletions of comment 1 and of post 1 while other requests read and write
\* the same post: the handlers of the request slots interleave at statement
\* boundaries.
NextIsolation ==
    \E r \in Reqs :
        \/ createComment(r, {1}, {NULL, 1}, MaxConcCommentId)
        \/ getComments(r, {1}, {FALSE})
        \/ addTagToPost(r, {1}, {2})
        \/ deleteComment(r, {1})
        \/ deletePost(r, {1})
        \/ ThreadOps(r) \/ getComments_select(r) \/ DeletePostOps(r)
        \/ addTagToPost_post(r) \/ addTagToPost_tag(r) \/ addTagToPost_association(r)
        \/ addTagToPost_insert(r)

SpecIsolation == Init /\ [][NextIsolation]_vars

\* One deletePost of post 1 at a time, on slot 1, while the request slots
\* create comments on post 1 and attach a tag to it: every row of post 1 that
\* goes was removed by that deletePost.
NextDeletePostConc ==
    \/ deletePost(1, {1})
    \/ DeletePostOps(1)
    \/ \E r \in Reqs :
        \/ createComment(r, {1}, {NULL, 1}, MaxConcCommentId)
        \/ addTagToPost(r, {1}, {2})
        \/ createComment_post(r) \/ createComment_parent(r) \/ createComment_insert(r)
        \/ addTagToPost_post(r) \/ addTagToPost_tag(r) \/ addTagToPost_association(r)
        \/ addTagToPost_insert(r)

SpecDeletePostConc == Init /\ [][NextDeletePostConc]_vars

\* Posts created and given new slugs under concurrent requests.
NextPostsConc ==
    \E r \in Reqs :
        \/ createPost(r, {1}, {1}, {"s2", "s3"}, {"draft"}, MaxConcPostId)
        \/ updatePost(r, {1}, {UNDEF}, {"s2", "s3"}, {UNDEF}, {1})
        \/ PostOps(r)

SpecPostsConc == Init /\ [][NextPostsConc]_vars

\* Posts created published, and post 1 moved between the statuses, under
\* concurrent requests.
NextPublish ==
    \E r \in Reqs :
        \/ createPost(r, {1}, {NULL}, {"s3"}, {"published"}, MaxPostId)
        \/ updatePost(r, {1}, {UNDEF}, {UNDEF}, {"published", "archived"}, {UNDEFID})
        \/ createPost_author(r) \/ createPost_slug(r) \/ createPost_insert(r)
        \/ updatePost_select(r) \/ updatePost_update(r)

SpecPublish == Init /\ [][NextPublish]_vars

\* Likes and updates of post 1 while the post is deleted, under concurrent
\* requests.
NextDeleteRace ==
    \E r \in Reqs :
        \/ likePost(r, {1})
        \/ updatePost(r, {1}, {"t2"}, {UNDEF}, {UNDEF}, {UNDEFID})
        \/ deletePost(r, {1})
        \/ LikeOps(r) \/ updatePost_select(r) \/ updatePost_update(r)
        \/ DeletePostOps(r)

SpecDeleteRace == Init /\ [][NextDeleteRace]_vars

\* User accounts, one request at a time.
NextUsers ==
    \/ createUser(1, {"e1", "e2", "e3"}, {"u1", "u2", "u3"})
    \/ updateUser(1, 1..(MaxUserId + 1), {UNDEF, "u1", "u2", "u3"})
    \/ UserOps(1)

SpecUsers == Init /\ [][NextUsers]_vars

\* Updates of post 1 with every combination of present and absent input
\* fields, one request at a time, between views of the post.
NextUpdatePost ==
    \/ Tick
    \/ updatePost(1, {1}, {UNDEF, "t2"}, {UNDEF, "s3"},
                  {UNDEF, "published", "archived"}, {UNDEFID, 1})
    \/ updatePost(1, {1, MaxPostId + 1}, {"t2"}, {"s2"}, {"published"}, {2})
    \/ getPostById(1, {1})
    \/ updatePost_select(1) \/ updatePost_category(1) \/ updatePost_update(1)
    \/ getPostById_select(1) \/ getPostById_update(1)

SpecUpdatePost == Init /\ [][NextUpdatePost]_vars

\* Comments of two posts are created, approved, deleted and listed, one
\* request at a time.
NextGetComments ==
    \/ createComment(1, {1, 2}, {NULL, 1}, MaxCommentId)
    \/ approveComment(1, 1..MaxCommentId)
    \/ deleteComment(1, 1..MaxCommentId)
    \/ getComments(1, {1, 2}, BOOLEAN)
    \/ ThreadOps(1) \/ approveComment_update(1) \/ getComments_select(1)

SpecGetComments == Init /\ [][NextGetComments]_vars

\* ---------------------------------------------------------------- claims: post lifecycle
Done(r, op) == req[r].op = op /\ req[r].pc = "done"
Ok(r, op) == Done(r, op) /\ req[r].res = "ok"

\* C1: once a post's published_at is non-null, no later step changes or clears
\* it, also across published -> draft -> published.
C1_PublishedAtLatch ==
    [][\A p \in DOMAIN posts \cap DOMAIN posts' :
          posts[p].published_at # NULL
              => posts'[p].published_at = posts[p].published_at]_vars

\* C2: a post created published has a non-null published_at, a post created
\* draft or archived has a null one, and an updatePost that moves a post that
\* was never published to published leaves it with a non-null published_at.
C2_FirstPublishStamps ==
    /\ Ok(1, "createPost") =>
         /\ req[1].ret \in DOMAIN posts
         /\ req[1].arg.status = "published" => posts[req[1].ret].published_at # NULL
         /\ req[1].arg.status # "published" => posts[req[1].ret].published_at = NULL
    /\ ( /\ Ok(1, "updatePost")
         /\ req[1].arg.status = "published"
         /\ pre[1].posts[req[1].arg.id].published_at = NULL )
         => posts[req[1].arg.id].published_at # NULL

C2_Witness ==
    /\ Ok(1, "updatePost")
    /\ req[1].arg.status = "published"
    /\ pre[1].posts[req[1].arg.id].published_at = NULL
    /\ posts[req[1].arg.id].published_at = now
    /\ \E p \in DOMAIN posts : p >= 3 /\ posts[p].published_at # NULL

\* ---------------------------------------------------------------- claims: comment threads
\* The comments of table f reachable from the ids in S by following parent_id
\* links backwards, S included.
RECURSIVE Closure(_, _)
Closure(f, S) ==
    LET T == S \cup {k \in DOMAIN f : f[k].parent_id \in S}
    IN  IF T = S THEN S ELSE Closure(f, T)

\* The subtree of comment c in table f: c and its descendants.
Subtree(f, c) == Closure(f, {c})

\* C3: after deleteComment(c) returned success, neither c nor any comment
\* that was in c's subtree when it was called is in the comments table.
C3_SubtreeComplete ==
    Ok(1, "deleteComment") =>
        Subtree(pre[1].comments, req[1].arg.id) \cap DOMAIN comments = {}

\* A non-root comment with a child and a grandchild has been deleted.
C3_Witness ==
    /\ Ok(1, "deleteComment")
    /\ LET c == req[1].arg.id
           f == pre[1].comments
       IN  /\ c \in DOMAIN f
           /\ f[c].parent_id # NULL
           /\ \E k, j \in DOMAIN f : f[k].parent_id = c /\ f[j].parent_id = k
           /\ f[c].parent_id \in DOMAIN comments

\* C4: in every state of a deleteComment(c) execution, the comments outside
\* c's subtree are all present and unchanged, no comment has been added, and
\* the users, categories, posts, tags and post_tags tables are as they were
\* when it was called.
C4_SubtreeFrame ==
    req[1].op = "deleteComment" =>
        LET f == pre[1].comments
            rest == DOMAIN f \ Subtree(f, req[1].arg.id)
        IN  /\ DOMAIN comments \subseteq DOMAIN f
            /\ \A k \in rest : k \in DOMAIN comments /\ comments[k] = f[k]
            /\ users = pre[1].users /\ categories = pre[1].categories
            /\ posts = pre[1].posts /\ tags = pre[1].tags
            /\ postTags = pre[1].postTags

\* A reply has been deleted whose parent, whose sibling under the same parent
\* and a comment of another post are all still there.
C4_Witness ==
    /\ Ok(1, "deleteComment")
    /\ LET c == req[1].arg.id
           f == pre[1].comments
       IN  /\ c \in DOMAIN f /\ c \notin DOMAIN comments
           /\ f[c].parent_id \in DOMAIN comments
           /\ \E k \in DOMAIN comments : comments[k].parent_id = f[c].parent_id
           /\ \E k \in DOMAIN comments : comments[k].post_id # f[c].post_id
           /\ postTags # <<>>

\* C5: no step of a deleteComment execution removes a comment that still has
\* a reply in the table.
C5_ChildrenBeforeParent ==
    [][req[1].op = "deleteComment" =>
         \A k \in DOMAIN comments \ DOMAIN comments' :
             \A j \in DOMAIN comments : comments[j].parent_id # k]_vars

\* Midway through the deletion of a comment with a grandchild: the grandchild
\* is gone, its parent and the comment itself are still there.
C5_Witness ==
    /\ At(1, "deleteComment", "replies")
    /\ LET c == req[1].arg.id
           f == pre[1].comments
       IN  /\ c \in DOMAIN comments
           /\ \E k \in DOMAIN comments, j \in DOMAIN f \ DOMAIN comments :
                  comments[k].parent_id = c /\ f[j].parent_id = k

\* C25: every deleteComment that was called ends (with Done), whatever the
\* comment id and the comment forest; a reply's parent_id is smaller than
\* its own id, so the parent_id graph has no cycle; while a deleteComment
\* runs, the calls of deleteReplies in progress are never more than the
\* comments that were there when it was called.
C25_DeleteCommentTerminates ==
    /\ (req[1].op = "deleteComment" /\ ~Free(1)) ~> Done(1, "deleteComment")
    /\ [](\A c \in DOMAIN comments :
            comments[c].parent_id # NULL => comments[c].parent_id < c)
    /\ [](req[1].op = "deleteComment" =>
            Len(req[1].stack) <= Cardinality(DOMAIN pre[1].comments))

\* deleteComment of a root comment has ended, and the comment had a chain of
\* replies three deep and a second direct reply.
C25_Witness ==
    /\ Done(1, "deleteComment")
    /\ LET c == req[1].arg.id
           f == pre[1].comments
       IN  /\ c \in DOMAIN f /\ f[c].parent_id = NULL
           /\ \E k, j, i \in DOMAIN f :
                 /\ f[k].parent_id = c /\ f[j].parent_id = k
                 /\ i # k /\ f[i].parent_id = c
           /\ comments = <<>>

\* C6: deleteComment of an id that is not in the comments table returns
\* success and leaves every table as it was; so does a second deleteComment(c).
C6_DeleteMissingIsNoOp ==
    (Done(1, "deleteComment") /\ req[1].arg.id \notin DOMAIN pre[1].comments) =>
        /\ req[1].res = "ok"
        /\ Snapshot = pre[1]

\* deleteComment of an id the sequence handed out whose row is gone again.
C6_Witness ==
    /\ Ok(1, "deleteComment")
    /\ req[1].arg.id \notin DOMAIN pre[1].comments
    /\ req[1].arg.id < nextCommentId
    /\ comments # <<>>

\* C7: createComment (on an existing post) whose parent_id names a comment of
\* another post fails with the same-post error, and one whose parent_id names
\* no existing comment fails with the parent-not-found error; neither inserts
\* a row.
C7_ParentConstraint ==
    ( /\ Done(1, "createComment")
      /\ req[1].arg.post_id \in DOMAIN pre[1].posts
      /\ req[1].arg.parent_id # NULL ) =>
        LET a == req[1].arg
            f == pre[1].comments
        IN  IF a.parent_id \notin DOMAIN f
              THEN req[1].res = "ParentNotFound" /\ comments = f
              ELSE f[a.parent_id].post_id # a.post_id
                     => req[1].res = "ParentWrongPost" /\ comments = f

\* ---------------------------------------------------------------- claims: post-tag associations
\* The post_tags rows of table f for the pair (post_id, tag_id).
PairRows(f, post_id, tag_id) ==
    {t \in DOMAIN f : f[t].post_id = post_id /\ f[t].tag_id = tag_id}

\* C10: addTagToPost for a pair that is already associated fails with the
\* already-associated error, and the table still holds exactly one row for
\* the pair.
C10_DuplicateRejected ==
    LET a == req[1].arg
    IN  (Done(1, "addTagToPost") /\ PairRows(pre[1].postTags, a.post_id, a.tag_id) # {}) =>
            /\ req[1].res = "AlreadyAssociated"
            /\ Cardinality(PairRows(postTags, a.post_id, a.tag_id)) = 1

\* The second addTagToPost of a pair that an earlier addTagToPost associated.
C10_Witness ==
    /\ Done(1, "addTagToPost")
    /\ req[1].res = "AlreadyAssociated"
    /\ \E t \in PairRows(postTags, req[1].arg.post_id, req[1].arg.tag_id) : t >= 2
    /\ Cardinality(DOMAIN postTags) >= 2

\* C12: removeTagFromPost reports success; the post_tags table afterwards is
\* the one at the call without the rows of the given (post_id, tag_id) pair
\* (the same table when the pair, the post or the tag does not exist), and
\* every other table is as it was at the call.
C12_RemoveTagFrame ==
    Done(1, "removeTagFromPost") =>
        LET a == req[1].arg
            f == pre[1].postTags
        IN  /\ req[1].res = "ok"
            /\ postTags = Remove(f, PairRows(f, a.post_id, a.tag_id))
            /\ users = pre[1].users /\ categories = pre[1].categories
            /\ posts = pre[1].posts /\ tags = pre[1].tags
            /\ comments = pre[1].comments

\* An association has been removed while another tag of the same post and
\* the same tag on another post stay associated.
C12_Witness ==
    /\ Ok(1, "removeTagFromPost")
    /\ LET a == req[1].arg
       IN  /\ PairRows(pre[1].postTags, a.post_id, a.tag_id) # {}
           /\ PairRows(postTags, a.post_id, a.tag_id) = {}
           /\ \E t \in DOMAIN postTags :
                  postTags[t].post_id = a.post_id /\ postTags[t].tag_id # a.tag_id
           /\ \E t \in DOMAIN postTags :
                  postTags[t].post_id # a.post_id /\ postTags[t].tag_id = a.tag_id

\* C24: addTagToPost reaches its INSERT only when it has found both the post
\* and the tag, and every post_tags row references a post and a tag that
\* exist, whatever addTagToPost, removeTagFromPost and deletePost requests ran.
C24_PostTagReferences ==
    /\ At(1, "addTagToPost", "insert") =>
          req[1].arg.post_id \in DOMAIN posts /\ req[1].arg.tag_id \in tags
    /\ \A t \in DOMAIN postTags :
          postTags[t].post_id \in DOMAIN posts /\ postTags[t].tag_id \in tags

\* addTagToPost has associated a tag with a post after another post that
\* had a tag was deleted.
C24_Witness ==
    /\ Ok(1, "addTagToPost")
    /\ req[1].ret \in DOMAIN postTags
    /\ 1 \notin DOMAIN posts
    /\ \E t \in DOMAIN pre[1].postTags : pre[1].postTags[t].post_id = req[1].arg.post_id

\* C11: the post_tags table holds at most one row per (post_id, tag_id) pair,
\* also when two addTagToPost requests for the same pair interleave their
\* existence check and their insert.
C11_PairUnique ==
    \A t, u \in DOMAIN postTags :
        (postTags[t].post_id = postTags[u].post_id /\ postTags[t].tag_id = postTags[u].tag_id)
            => t = u

\* C8: every comment with a non-null parent_id references a comment that
\* exists and belongs to the same post.
C8_CommentTreeInvariant ==
    \A c \in DOMAIN comments :
        comments[c].parent_id # NULL =>
            /\ comments[c].parent_id \in DOMAIN comments
            /\ comments[comments[c].parent_id].post_id = comments[c].post_id

\* ---------------------------------------------------------------- claims: deletePost
\* C13: after deletePost(p) returned success there is no posts row with id p,
\* no comments row with post_id p (replies included) and no post_tags row
\* with post_id p.
C13_DeletePostCascade ==
    Ok(1, "deletePost") =>
        LET p == req[1].arg.id
        IN  /\ p \notin DOMAIN posts
            /\ \A c \in DOMAIN comments : comments[c].post_id # p
            /\ \A t \in DOMAIN postTags : postTags[t].post_id # p

\* A post with a comment, a reply to it and a tag has been deleted.
C13_Witness ==
    /\ Ok(1, "deletePost")
    /\ LET p == req[1].arg.id
           f == pre[1].comments
       IN  /\ p \in DOMAIN pre[1].posts /\ p \notin DOMAIN posts
           /\ \E c, d \in DOMAIN f :
                  f[c].post_id = p /\ f[d].post_id = p /\ f[d].parent_id = c
           /\ \E t \in DOMAIN pre[1].postTags : pre[1].postTags[t].post_id = p

\* The rows of table f whose post_id is not p.
RowsOfOtherPosts(f, p) ==
    [k \in {x \in DOMAIN f : f[x].post_id # p} |-> f[k]]

\* C14: in every state of a deletePost(p) execution, the users, categories
\* and tags tables, the posts other than p, and the comments and post_tags
\* rows whose post_id is not p are as they were when it was called.
C14_DeletePostFrame ==
    req[1].op = "deletePost" =>
        LET p == req[1].arg.id
        IN  /\ users = pre[1].users /\ categories = pre[1].categories
            /\ tags = pre[1].tags
            /\ Remove(posts, {p}) = Remove(pre[1].posts, {p})
            /\ RowsOfOtherPosts(comments, p) = RowsOfOtherPosts(pre[1].comments, p)
            /\ RowsOfOtherPosts(postTags, p) = RowsOfOtherPosts(pre[1].postTags, p)

\* A post with comments and a tag has been deleted while another post keeps
\* its comment thread and its tag.
C14_Witness ==
    /\ Ok(1, "deletePost")
    /\ LET p == req[1].arg.id
       IN  /\ \E c \in DOMAIN pre[1].comments : pre[1].comments[c].post_id = p
           /\ \E t \in DOMAIN pre[1].postTags : pre[1].postTags[t].post_id = p
           /\ \E c, d \in DOMAIN comments : comments[d].parent_id = c
           /\ postTags # <<>>
           /\ DOMAIN posts # {}

\* ---------------------------------------------------------------- claims: isolation
\* Request d is in the middle of a deleteComment that has removed a part of the
\* comment's subtree and not the rest, or of a deletePost that has removed a
\* part of the post's comments and post_tags rows and not the rest.
PartlyDeleted(d) ==
    /\ ~Free(d)
    /\ \/ /\ req[d].op = "deleteComment"
          /\ LET T == Subtree(pre[d].comments, req[d].arg.id) \cap DOMAIN pre[d].comments
             IN  T \ DOMAIN comments # {} /\ T \cap DOMAIN comments # {}
       \/ /\ req[d].op = "deletePost"
          /\ LET C == {c \in DOMAIN pre[d].comments : pre[d].comments[c].post_id = req[d].arg.id}
                 G == {t \in DOMAIN pre[d].postTags : pre[d].postTags[t].post_id = req[d].arg.id}
             IN  /\ C \ DOMAIN comments # {} \/ G \ DOMAIN postTags # {}
                 /\ C \cap DOMAIN comments # {} \/ G \cap DOMAIN postTags # {}

\* C17: no getComments, createComment or addTagToPost request executes a
\* statement (and so observes the store) while a deleteComment or deletePost
\* of another request has removed only a part of what it removes.
C17_NoPartialObservation ==
    [][\A r \in Reqs, d \in Reqs :
          ( /\ r # d
            /\ req[r].op \in {"getComments", "createComment", "addTagToPost"}
            /\ req'[r] # req[r] /\ ~Free(r) )
              => ~PartlyDeleted(d)]_vars

\* The comments and post_tags rows of post p that were there when request r
\* was called and are not there any more.
RemovedSinceCall(r, p) ==
    {<<"comments", c>> : c \in {c \in DOMAIN pre[r].comments \ DOMAIN comments :
                                  pre[r].comments[c].post_id = p}}
      \cup
    {<<"post_tags", t>> : t \in {t \in DOMAIN pre[r].postTags \ DOMAIN postTags :
                                   pre[r].postTags[t].post_id = p}}

\* C26: a deletePost that has ended either succeeded, and then the post and
\* every comments and post_tags row of it are gone, or failed, and then none of
\* the post's comments and post_tags rows that were there at the call has been
\* removed; it never ends with rows removed and the post row still there.
C26_DeletePostAllOrNothing ==
    Done(1, "deletePost") =>
        LET p == req[1].arg.id
        IN  IF req[1].res = "ok"
              THEN /\ p \notin DOMAIN posts
                   /\ \A c \in DOMAIN comments : comments[c].post_id # p
                   /\ \A t \in DOMAIN postTags : postTags[t].post_id # p
              ELSE RemovedSinceCall(1, p) = {}

\* ---------------------------------------------------------------- claims: publication
\* C27: a post whose status is published has a published_at, and a
\* published_at that is set is never cleared, so that a post whose
\* published_at is null has never been published.
C27_PublishedAtLatch ==
    /\ [](\A p \in DOMAIN posts :
            posts[p].status = "published" => posts[p].published_at # NULL)
    /\ [][\A p \in DOMAIN posts \cap DOMAIN posts' :
            posts[p].published_at # NULL => posts'[p].published_at # NULL]_vars

\* Post 1 was published by updatePost and archived again, a post was created
\* published, and post 2 has never been published.
C27_Witness ==
    /\ posts[1].status = "archived" /\ posts[1].published_at # NULL
    /\ posts[2].status = "draft" /\ posts[2].published_at = NULL
    /\ 3 \in DOMAIN posts /\ posts[3].status = "published"
    /\ \E r \in Reqs : Done(r, "updatePost") /\ req[r].arg.status = "archived"

\* ---------------------------------------------------------------- claims: counters never decrease
\* C28: no step lowers the view_count or the like_count of a post, and both
\* are at least 0 in every state.
C28_CountersMonotone ==
    /\ [](\A p \in DOMAIN posts :
            posts[p].view_count >= 0 /\ posts[p].like_count >= 0)
    /\ [][\A p \in DOMAIN posts \cap DOMAIN posts' :
            /\ posts'[p].view_count >= posts[p].view_count
            /\ posts'[p].like_count >= posts[p].like_count]_vars

\* ---------------------------------------------------------------- claims: results under deletion
\* C29: a likePost or an updatePost that has ended either failed (not found)
\* or returned the post row it updated; it never reports success without a
\* post.
C29_ResultIsPost ==
    \A r \in Reqs :
        (req[r].pc = "done" /\ req[r].op \in {"likePost", "updatePost"}
           /\ req[r].res = "ok")
          => req[r].ret # NULL

\* ---------------------------------------------------------------- claims: validation
\* The handlers that validate their input before they write.
Validating ==
    {"createPost", "updatePost", "createComment", "addTagToPost", "deletePost",
     "approveComment", "likePost"}

\* C15: whenever one of the validating handlers ends with an error (not found,
\* conflict, same-post), every table is identical to what it was when the
\* handler was called.
C15_FailureLeavesTables ==
    (req[1].op \in Validating /\ req[1].pc = "done" /\ req[1].res # "ok") =>
        Snapshot = pre[1]

\* approveComment of an id that names no comment has failed while a comment
\* that is not approved exists, after a like and a new post.
C15_Witness ==
    /\ Done(1, "approveComment")
    /\ req[1].res = "CommentNotFound"
    /\ \E c \in DOMAIN comments : ~comments[c].is_approved
    /\ posts[1].like_count > 0
    /\ 3 \in DOMAIN posts

\* C16: createPost checks that the author exists, then that the category (if
\* non-null) exists, then that the slug is unused, and the first check that
\* fails determines the error, whatever the later checks would find.
C16_CreatePostCheckOrder ==
    Done(1, "createPost") =>
        LET a == req[1].arg
            f == pre[1]
        IN  req[1].res =
              IF a.author_id \notin DOMAIN f.users THEN "AuthorNotFound"
              ELSE IF a.category_id # NULL /\ a.category_id \notin f.categories
                     THEN "CategoryNotFound"
              ELSE IF \E q \in DOMAIN f.posts : f.posts[q].slug = a.slug
                     THEN "SlugExists"
              ELSE "ok"

\* createPost with a missing author, a missing category and a slug in use
\* has ended with the author error.
C16_Witness ==
    /\ Done(1, "createPost")
    /\ req[1].arg.author_id \notin DOMAIN users
    /\ req[1].arg.category_id # NULL /\ req[1].arg.category_id \notin categories
    /\ \E q \in DOMAIN posts : posts[q].slug = req[1].arg.slug
    /\ req[1].res = "AuthorNotFound"

C21_UserUnique ==
    /\ \A u, v \in DOMAIN users :
          (users[u].email = users[v].email \/ users[u].username = users[v].username)
              => u = v
    /\ LET a == req[1].arg
           f == pre[1].users
       IN  /\ ( /\ Done(1, "createUser")
                /\ \E u \in DOMAIN f : f[u].email = a.email \/ f[u].username = a.username )
                  => req[1].res # "ok" /\ Snapshot = pre[1]
           /\ ( /\ Done(1, "updateUser")
                /\ \E u \in DOMAIN f \ {a.id} : f[u].username = a.username )
                  => req[1].res # "ok" /\ Snapshot = pre[1]

\* A createUser with the email of one user and a username nobody has was
\* refused, after an updateUser gave user 1 a new username.
C21_Witness ==
    /\ Done(1, "createUser")
    /\ req[1].res = "ConstraintViolation"
    /\ \E u \in DOMAIN users : users[u].email = req[1].arg.email
    /\ \A u \in DOMAIN users : users[u].username # req[1].arg.username
    /\ users[1].username # "u1"
    /\ Cardinality(DOMAIN users) >= 2

\* ---------------------------------------------------------------- claims: slugs
\* Request r is at the INSERT of a createPost, or at the UPDATE of an updatePost
\* of an existing post that sets the slug, and another post holds the slug.
WouldDuplicateSlug(r) ==
    LET a == req[r].arg
    IN  /\ \/ At(r, "createPost", "insert")
           \/ At(r, "updatePost", "update") /\ a.id \in DOMAIN posts /\ a.slug # UNDEF
        /\ \E q \in DOMAIN posts \ {a.id} : posts[q].slug = a.slug

\* C20: no two posts share a slug in any state reached by createPost and
\* updatePost requests, interleaved or not; the createPost or updatePost whose
\* write would give a second post a slug ends with an error, and every
\* createPost and updatePost that ends with an error leaves the tables as they
\* are.
C20_SlugUnique ==
    /\ [](\A p, q \in DOMAIN posts : posts[p].slug = posts[q].slug => p = q)
    /\ [][\A r \in Reqs :
            /\ (WouldDuplicateSlug(r) /\ req'[r] # req[r]) =>
                   req'[r].pc = "done" /\ req'[r].res # "ok"
            /\ ( /\ req[r].op \in {"createPost", "updatePost"}
                 /\ req'[r] # req[r] /\ req'[r].pc = "done" /\ req'[r].res # "ok" )
                   => tables' = tables]_vars

\* Two createPost requests with the same slug both passed the slug check; one
\* inserted its post and the other was refused by the store.
C20_Witness ==
    \E r, q \in Reqs :
        /\ Ok(r, "createPost")
        /\ Done(q, "createPost") /\ req[q].res = "ConstraintViolation"
        /\ req[q].arg.slug = req[r].arg.slug
        /\ req[r].ret \in DOMAIN posts
        /\ posts[req[r].ret].slug = req[r].arg.slug
        /\ \A p \in DOMAIN pre[q].posts : pre[q].posts[p].slug # req[q].arg.slug

\* ---------------------------------------------------------------- claims: counters
\* C18: whatever the interleaving of getPostById and getPostBySlug requests, a
\* post's stored view_count is its initial value (0) plus the number of view
\* requests that returned the post: no increment is lost.
C18_ViewCountExact ==
    \A p \in DOMAIN posts : posts[p].view_count = served.views[p]

\* C19: whatever the interleaving of likePost requests, a post's stored
\* like_count is its initial value (0) plus the number of likePost requests
\* that returned the post, and the UPDATE of a likePost changes nothing of the
\* posts table but the like_count of its post, which it raises by one.
C19_LikeCountExact ==
    /\ [](\A p \in DOMAIN posts : posts[p].like_count = served.likes[p])
    /\ [][\A r \in Reqs :
            (At(r, "likePost", "update") /\ req'[r].pc = "done") =>
                posts' = [posts EXCEPT ![req[r].arg.id].like_count = @ + 1]]_vars

\* Two likePost requests for post 1 that were in flight together have both
\* returned, after an earlier like of post 2.
C19_Witness ==
    /\ \A r \in Reqs : Ok(r, "likePost") /\ req[r].arg.id = 1 /\ req[r].ret = 1
    /\ \A r \in Reqs : pre[r].posts[1].like_count = 0
    /\ posts[1].like_count = 2
    /\ posts[2].like_count = 1

\* ---------------------------------------------------------------- claims: moderation
\* C23: every comment that getComments with approved_only = true returns is a
\* comment of the requested post, is in the comments table and is approved;
\* so a comment that was created and not approved, and a comment that was
\* deleted, is not returned.
C23_ApprovedOnlyResults ==
    (Done(1, "getComments") /\ req[1].arg.approved_only) =>
        \A c \in req[1].results :
            /\ c \in DOMAIN comments
            /\ comments[c].post_id = req[1].arg.post_id
            /\ comments[c].is_approved

\* getComments with approved_only = true has returned a comment while the
\* same post has a comment that is not approved, the other post has an
\* approved comment, and a comment has been deleted.
C23_Witness ==
    /\ Done(1, "getComments") /\ req[1].arg.approved_only
    /\ req[1].results # {}
    /\ \E c \in DOMAIN comments :
          comments[c].post_id = req[1].arg.post_id /\ ~comments[c].is_approved
    /\ \E c \in DOMAIN comments :
          comments[c].post_id # req[1].arg.post_id /\ comments[c].is_approved
    /\ \E c \in 1..(nextCommentId - 1) : c \notin DOMAIN comments

\* C9: a comment is created with is_approved = false, and is_approved becomes
\* true only in the step in which an approveComment for that comment's id
\* succeeds.
C9_ApprovedOnlyByApproval ==
    [][\A c \in DOMAIN comments' :
          comments'[c].is_approved =>
              \/ c \in DOMAIN comments /\ comments[c].is_approved
              \/ \E r \in Reqs :
                    /\ At(r, "approveComment", "update") /\ req[r].arg.id = c
                    /\ req'[r].pc = "done" /\ req'[r].res = "ok"]_vars

\* A comment has been approved while another comment, created before and
\* after other requests, is still unapproved.
C9_Witness ==
    /\ Ok(1, "approveComment")
    /\ comments[req[1].arg.id].is_approved
    /\ \E c \in DOMAIN comments : ~comments[c].is_approved
    /\ posts[1].title = "t2"

\* C30: an approveComment of a comment that exists leaves the comments table
\* as it was at the call except that the comment is approved (the same table
\* when the comment was approved already), and no step makes an approved
\* comment that stays in the table unapproved.
C30_ApproveLatch ==
    /\ [](\A c \in DOMAIN pre[1].comments :
            (Done(1, "approveComment") /\ req[1].arg.id = c) =>
                /\ req[1].res = "ok"
                /\ comments = [pre[1].comments EXCEPT ![c].is_approved = TRUE]
                /\ pre[1].comments[c].is_approved => comments = pre[1].comments)
    /\ [][\A c \in DOMAIN comments \cap DOMAIN comments' :
            comments[c].is_approved => comments'[c].is_approved]_vars

\* The second approveComment of a comment, while an unapproved reply to it
\* and an approved comment that was approved before are in the table.
C30_Witness ==
    /\ Ok(1, "approveComment")
    /\ req[1].arg.id \in DOMAIN pre[1].comments
    /\ pre[1].comments[req[1].arg.id].is_approved
    /\ \E c \in DOMAIN comments :
          ~comments[c].is_approved /\ comments[c].parent_id = req[1].arg.id
    /\ \E c \in DOMAIN comments \ {req[1].arg.id} : comments[c].is_approved

====
